---- MODULE Spec2Model ----
(***************************************************************************)
(* A model of vdir/__init__.py: a collection directory holding one file    *)
(* per item, with mtime-derived etags, atomic writes through a temporary   *)
(* file (atomicwrites.atomic_write) and optimistic etag checks, and one    *)
(* file per metadata key in the same directory.                            *)
(*                                                                         *)
(* Independent callers (Procs) each run one VdirBase call at a time; every *)
(* filesystem syscall of a call is one step, so calls interleave at        *)
(* syscall granularity.  No step is ever forced, so a caller that dies in  *)
(* the middle of a call is a caller that takes no further step.            *)
(* Modification times are nanosecond offsets from an epoch that is a       *)
(* multiple of 2 * Ulp.                                                    *)
(***************************************************************************)
EXTENDS Integers, Sequences, FiniteSets, TLC

----------------------------------------------------------------------------
(* Bounds of the model *)

\* the clock is observed at offsets 0..MaxClock from the epoch
MaxClock == 256
\* number of calls issued, by all callers together
MaxCalls == 4
\* number of calls issued when one caller explores every input
MaxCallsAlone == 3
\* number of calls issued when concurrent callers set several metadata values
MaxCallsBrief == 3
\* longest file name the filesystem accepts (NAME_MAX)
NameMax == 40

----------------------------------------------------------------------------
(* Program constants *)

\* uuid.uuid4().hex is 32 hexadecimal characters
HexLen == 32
\* '{:.9f}'.format(mtime): digits after the decimal point
EtagDecimals == 9
\* '{:.9f}'.format converts the integer st_mtime_ns to a double; timestamps
\* between 2^60 and 2^61 ns (years 2006 to 2043) are 2^8 ns apart as doubles
Ulp == 256

Procs == {1, 2}

Lower == {"a", "b", "c", "d", "e", "f", "g", "h", "i", "j", "k", "l", "m",
          "n", "o", "p", "q", "r", "s", "t", "u", "v", "w", "x", "y", "z"}
Upper == {"A", "B", "C", "D", "E", "F", "G", "H", "I", "J", "K", "L", "M",
          "N", "O", "P", "Q", "R", "S", "T", "U", "V", "W", "X", "Y", "Z"}
Digit == {"0", "1", "2", "3", "4", "5", "6", "7", "8", "9"}

SAFE_UID_CHARS == Lower \cup Upper \cup Digit \cup {"_", ".", "-", "+"}

Range(s) == {s[i] : i \in DOMAIN s}

Rep(c, n) == [i \in 1..n |-> c]

\* (mutant) every character passes for safe
HrefSafeLax(ident) == TRUE

\* _href_safe: no character of ident outside the safe set
HrefSafe(ident) == (Range(ident) \ SAFE_UID_CHARS) = {}

\* the pool uuid.uuid4().hex draws from
RandomIds == {Rep("0", HexLen), Rep("f", HexLen)}

\* _generate_href: the values it can return for ident (<<>> stands for both
\* None and the empty string, which "not ident" treats alike)
GenerateHref(ident) ==
    IF ident = <<>> \/ ~HrefSafe(ident) THEN RandomIds ELSE {ident}

\* VdirBase._get_href
GetHref(ident, ext) == {id \o ext : id \in GenerateHref(ident)}

----------------------------------------------------------------------------
(* Etags *)

\* int -> double, round half to even, for offsets from the epoch
ToFloat(n) ==
    LET q == n \div Ulp
        r == n % Ulp
    IN  IF 2 * r < Ulp THEN q * Ulp
        ELSE IF 2 * r > Ulp THEN (q + 1) * Ulp
        ELSE IF q % 2 = 0 THEN q * Ulp ELSE (q + 1) * Ulp

DigitChar(d) == <<"0", "1", "2", "3", "4", "5", "6", "7", "8", "9">>[d + 1]

RECURSIVE Decimal(_)
Decimal(n) == IF n < 10 THEN <<DigitChar(n)>>
              ELSE Decimal(n \div 10) \o <<DigitChar(n % 10)>>

\* '{:.9f}'.format(mtime) with mtime = st_mtime_ns (the st_mtime that lines
\* 53-54 fall back to where st_mtime_ns is missing is a double already)
FormatEtag(mtime) == Decimal(ToFloat(mtime)) \o <<".">> \o Rep("0", EtagDecimals)

----------------------------------------------------------------------------
(* Text encoding (self.encoding, default 'utf-8') *)

\* the characters of text: "a", "b" and " " are ASCII, "e_acute" is U+00E9
Utf8(c) == CASE c = "a" -> <<97>>
             [] c = "b" -> <<98>>
             [] c = " " -> <<32>>
             [] c = "e_acute" -> <<195, 169>>

\* item.raw.encode(self.encoding)
RECURSIVE Encode(_)
Encode(raw) == IF raw = <<>> THEN <<>> ELSE Utf8(Head(raw)) \o Encode(Tail(raw))

\* f.read().decode(self.encoding): <<"error">> stands for UnicodeDecodeError
RECURSIVE Decode(_)
Decode(data) ==
    IF data = <<>> THEN <<>>
    ELSE LET rest(c, n) ==
                 LET t == Decode(SubSeq(data, n + 1, Len(data)))
                 IN  IF t = <<"error">> THEN t ELSE <<c>> \o t
         IN  IF data[1] = 97 THEN rest("a", 1)
             ELSE IF data[1] = 98 THEN rest("b", 1)
             ELSE IF data[1] = 32 THEN rest(" ", 1)
             ELSE IF Len(data) >= 2 /\ data[1] = 195 /\ data[2] = 169
                  THEN rest("e_acute", 2)
             ELSE <<"error">>

----------------------------------------------------------------------------
(* Inputs *)

\* Item.raw values the callers store
Raws == {<<"a", "b">>, <<"e_acute">>}

\* item.ident values: none/empty, safe, unsafe, safe but longer than NAME_MAX
SafeHint == <<"a">>
LongHint == Rep("a", NameMax + 1)
Hints == {<<>>, SafeHint, <<"a", "/">>, LongHint}

\* self.fileext values the store is constructed with
FileExts == {<<".", "i">>}

\* instants at which the clock is read: both sides of a double's rounding step
ClockValues == {t \in 0..MaxClock : t % Ulp <= 1}

\* hrefs callers pass to get/update/delete
HrefArgs(ids, ext) == {id \o ext : id \in ids}

\* etags callers pass to update/delete
EtagArgs(instants) == {FormatEtag(t) : t \in instants}

\* errors the filesystem can raise when the temporary file is created
OsFaults == {"ENOENT", "EACCES"}

\* Python's None, where a value is optional
None == <<"None">>

\* metadata keys: the reserved file names 'color' and 'displayname'
MetaKeys == {<<"c", "o", "l", "o", "r">>,
             <<"d", "i", "s", "p", "l", "a", "y", "n", "a", "m", "e">>}

\* metadata values: None, and text that is empty, blank, plain, or padded
\* with whitespace
MetaValues == {None, <<>>, <<" ">>, <<"a", "b">>, <<" ", "a", " ">>}

\* What a run explores.  One caller alone issues every call on every hint,
\* href and fault, and each call remembers the entry it found (pre).
\* Concurrent callers issue the calls that meet on one href, the safe
\* hint's, and on one metadata key.  Both read the clock at rounding steps
\* only.  To follow one href through its lifetime, one caller works on the
\* safe hint's href with the clock read on both sides of a rounding step, the
\* etags returned are collected (issued) and so are the hrefs created and not
\* deleted since (live).  To follow the metadata, one caller sets and gets
\* every value under every key, next to the items of one href.  Concurrent
\* callers that issue few calls set several values under one key, and the
\* hrefs created and not deleted since are collected.
FullScope == [raws |-> Raws, callers |-> {1}, hints |-> Hints,
              ids |-> {SafeHint} \cup RandomIds, faults |-> OsFaults,
              instants |-> {t \in ClockValues : t % Ulp = 0},
              pre |-> TRUE, issued |-> FALSE, live |-> FALSE,
              calls |-> MaxCallsAlone,
              keys |-> {<<"c", "o", "l", "o", "r">>}, values |-> {<<"a", "b">>}]
RaceScope == [raws |-> Raws, callers |-> Procs, hints |-> {SafeHint},
              ids |-> {SafeHint}, faults |-> {"EACCES"},
              instants |-> {t \in ClockValues : t % Ulp = 0},
              pre |-> FALSE, issued |-> FALSE, live |-> FALSE, calls |-> MaxCalls,
              keys |-> {<<"c", "o", "l", "o", "r">>}, values |-> {<<"a", "b">>}]
LifeScope == [raws |-> Raws, callers |-> {1}, hints |-> {SafeHint},
              ids |-> {SafeHint}, faults |-> {"EACCES"},
              instants |-> ClockValues, pre |-> TRUE, issued |-> TRUE,
              live |-> TRUE, calls |-> MaxCalls,
              keys |-> {<<"c", "o", "l", "o", "r">>}, values |-> {<<"a", "b">>}]
BriefScope == [raws |-> {<<"a", "b">>}, callers |-> Procs, hints |-> {SafeHint},
               ids |-> {SafeHint}, faults |-> {"EACCES"},
               instants |-> {t \in ClockValues : t % Ulp = 0},
               pre |-> FALSE, issued |-> FALSE, live |-> TRUE,
               calls |-> MaxCallsBrief,
               keys |-> {<<"c", "o", "l", "o", "r">>},
               values |-> {<<"a", "b">>, <<" ", "a", " ">>}]
MetaScope == [raws |-> Raws, callers |-> {1}, hints |-> {SafeHint},
              ids |-> {SafeHint}, faults |-> {"EACCES"},
              instants |-> {t \in ClockValues : t % Ulp = 0},
              pre |-> TRUE, issued |-> FALSE, live |-> FALSE, calls |-> MaxCalls,
              keys |-> MetaKeys, values |-> MetaValues]

\* the caller's store: post_hook is read but never assigned by VdirBase
PostHooks == {"unset", "falsy", "truthy"}

\* item.uid as read by update: <<>> stands for an item without the attribute
\* (Item.__init__ assigns only raw)
Uids == {<<>>, SafeHint}

----------------------------------------------------------------------------
(* State *)

VARIABLES
    scope,      \* names the callers and inputs explored (fixed for a run)
    fileext,    \* self.fileext
    files,      \* the collection directory: file name -> [data, mtime]
    clock,      \* the filesystem clock
    pc,         \* per caller: position in its current call
    arg,        \* per caller: arguments of its current call
    loc,        \* per caller: local variables of its current call
    res,        \* per caller: outcome of its last completed call
    ncalls,     \* number of calls issued so far
    issued,     \* history: the etags create and update have returned
    live        \* history: the hrefs created and not deleted since

vars == <<scope, fileext, issued, live, files, clock, pc, arg, loc, res, ncalls>>

\* the callers and inputs of this run
Scope == CASE scope = "full" -> FullScope
           [] scope = "race" -> RaceScope
           [] scope = "life" -> LifeScope
           [] scope = "meta" -> MetaScope
           [] scope = "brief" -> BriefScope

NoArg == [op |-> "none", href |-> <<>>, ident |-> <<>>, raw |-> <<>>, etag |-> <<>>,
          key |-> <<>>, value |-> <<>>]
NoEntry == [present |-> FALSE, data |-> <<>>, mtime |-> 0]
NoLoc == [href |-> <<>>, etag |-> <<>>, stat |-> 0, attempt |-> 0, err |-> "none",
          cause |-> "none", data |-> <<>>, pre |-> NoEntry, names |-> {},
          pairs |-> {}]
NoRes == [status |-> "none", exc |-> "none", errno |-> "none", href |-> <<>>,
          etag |-> <<>>, actual |-> <<>>, raw |-> <<>>, value |-> <<>>,
          pairs |-> {}]

\* a call returned normally
Ok(href, etag, raw) == [NoRes EXCEPT !.status = "ok", !.href = href,
                                     !.etag = etag, !.raw = raw]
\* a call raised an exception
Raised(exc) == [NoRes EXCEPT !.status = "raised", !.exc = exc]
\* OSError with e.errno = errno, as the os module raises it
OSError(errno) == [Raised("OSError") EXCEPT !.errno = errno]
\* NotFoundError(x): lines 62-63
NotFoundError(x) == [Raised("NotFoundError") EXCEPT !.href = x]
\* WrongEtagError(etag, actual_etag): lines 66-67
WrongEtagError(etag, actual) ==
    [Raised("WrongEtagError") EXCEPT !.etag = etag, !.actual = actual]
\* AlreadyExists(existing_href=href): VdirError derives from IOError, whose
\* constructor takes no keyword arguments, so the raise statement itself
\* raises TypeError
AlreadyExists(href) == Raised("TypeError")

\* (mutant) the temporary file's name ends like an item's
TmpNameWithExt(p) == <<"t", "m", "p", DigitChar(p), ".", "i">>

\* tempfile.mkstemp picks a name no other file has
TmpName(p) == <<"t", "m", "p", DigitChar(p)>>

Exists(name) == name \in DOMAIN files
\* what the directory holds under name
Entry(name) == IF Exists(name)
               THEN [present |-> TRUE, data |-> files[name].data,
                     mtime |-> files[name].mtime]
               ELSE NoEntry
Remove(name) == [n \in DOMAIN files \ {name} |-> files[n]]
\* _get_etag_from_file
GetEtagFromFile(name) == FormatEtag(files[name].mtime)

\* the entry a call remembers having found under name
Found(name) == IF Scope.pre THEN Entry(name) ELSE NoEntry

InitIn(sc) ==
    /\ scope = sc
    /\ fileext \in FileExts
    /\ files = <<>>
    /\ clock = 0
    /\ pc = [p \in Procs |-> "idle"]
    /\ arg = [p \in Procs |-> NoArg]
    /\ loc = [p \in Procs |-> NoLoc]
    /\ res = [p \in Procs |-> NoRes]
    /\ ncalls = 0
    /\ issued = {}
    /\ live = {}

\* concurrent callers
Init == InitIn("race")

\* one caller
InitSeq == InitIn("full")

\* one caller, one href
InitLife == InitIn("life")

\* one caller, the metadata
InitMeta == InitIn("meta")

\* concurrent callers, few calls
InitBrief == InitIn("brief")

\* the clock advances
Tick ==
    /\ \E t \in Scope.instants : t > clock /\ clock' = t
    /\ UNCHANGED <<scope, fileext, issued, live, files, pc, arg, loc, res, ncalls>>

\* a call starts; loc.pre remembers what its href held at that moment
Begin(p, a, l, next) ==
    /\ pc[p] = "idle"
    /\ p \in Scope.callers
    /\ ncalls < Scope.calls
    /\ ncalls' = ncalls + 1
    /\ arg' = [arg EXCEPT ![p] = a]
    /\ loc' = [loc EXCEPT ![p] = [l EXCEPT !.pre = Found(l.href)]]
    /\ res' = res
    /\ pc' = [pc EXCEPT ![p] = next]
    /\ UNCHANGED <<scope, fileext, issued, live, files, clock>>

\* a call ends with outcome r
End(p, r) ==
    /\ pc' = [pc EXCEPT ![p] = "ret"]
    /\ res' = [res EXCEPT ![p] = r]
    /\ loc' = [loc EXCEPT ![p] = [NoLoc EXCEPT !.href = loc[p].href,
                                               !.attempt = loc[p].attempt,
                                               !.err = loc[p].err,
                                               !.cause = loc[p].cause,
                                               !.pre = loc[p].pre]]

\* history: the call numbered ncalls, a create or an update, returned etag,
\* derived from the modification time stat
Issue(op, href, stat, etag) ==
    issued' = IF Scope.issued
              THEN issued \cup {[op |-> op, call |-> ncalls, href |-> href,
                                  stat |-> stat, etag |-> etag]}
              ELSE issued

\* history: a create returned href
Created(href) == live' = IF Scope.live THEN live \cup {href} ELSE live

\* history: a delete of href returned
Deleted(href) == live' = IF Scope.live THEN live \ {href} ELSE live

\* the caller has the outcome and is free to issue its next call
Return(p) ==
    /\ pc[p] = "ret"
    /\ pc' = [pc EXCEPT ![p] = "idle"]
    /\ arg' = [arg EXCEPT ![p] = NoArg]
    /\ loc' = [loc EXCEPT ![p] = NoLoc]
    /\ res' = [res EXCEPT ![p] = NoRes]
    /\ UNCHANGED <<scope, fileext, issued, live, files, clock, ncalls>>

----------------------------------------------------------------------------
(* atomicwrites.atomic_write(fpath, mode='wb', overwrite=...) *)

SetFile(name, data, mtime) == (name :> [data |-> data, mtime |-> mtime]) @@ files

\* entering the with block: tempfile.mkstemp in the collection directory
AwOpen(p) ==
    /\ pc[p] = "aw_open"
    /\ files' = SetFile(TmpName(p), <<>>, clock)
    /\ pc' = [pc EXCEPT ![p] = "aw_body"]
    /\ UNCHANGED <<scope, fileext, issued, live, clock, arg, loc, res, ncalls>>

\* f.write(data): the first k bytes pass the io buffer and reach the file,
\* the rest stays buffered; the file as it is afterwards
Written(p, data, k) ==
    [data |-> SubSeq(data, 1, k),
     mtime |-> IF k > 0 THEN clock ELSE files[TmpName(p)].mtime]

\* (mutant) the buffer is dropped instead of flushed
FlushedNothing(p) == files[TmpName(p)]

\* f.flush(): the buffered bytes reach the file
Flushed(p) ==
    [data |-> files[TmpName(p)].data \o loc[p].data,
     mtime |-> IF loc[p].data # <<>> THEN clock ELSE files[TmpName(p)].mtime]

\* leaving the with block normally: sync (flush, fsync) and close
AwSync(p) ==
    /\ pc[p] = "aw_sync"
    /\ files' = [files EXCEPT ![TmpName(p)] = Flushed(p)]
    /\ loc' = [loc EXCEPT ![p].data = <<>>]
    /\ pc' = [pc EXCEPT ![p] = "aw_commit"]
    /\ UNCHANGED <<scope, fileext, issued, live, clock, arg, res, ncalls>>

\* leaving the with block by an exception: the file object is closed, which
\* flushes it
AwClose(p) ==
    /\ pc[p] = "aw_close"
    /\ files' = [files EXCEPT ![TmpName(p)] = Flushed(p)]
    /\ loc' = [loc EXCEPT ![p].data = <<>>]
    /\ pc' = [pc EXCEPT ![p] = "aw_rollback"]
    /\ UNCHANGED <<scope, fileext, issued, live, clock, arg, res, ncalls>>

\* (mutant) os.link replaces the file it finds
LinkOutcomeReplacing(dst) == IF Len(dst) > NameMax THEN "ENAMETOOLONG" ELSE "ok"

\* what os.link(tmp, dst) does: "ok" or the errno it fails with
LinkOutcome(dst) ==
    IF Len(dst) > NameMax THEN "ENAMETOOLONG"
    ELSE IF Exists(dst) THEN "EEXIST"
    ELSE "ok"

\* (mutant) rename appends to the file it finds
RenameAppending(tmp, dst) ==
    (dst :> [data |-> Entry(dst).data \o files[tmp].data, mtime |-> files[tmp].mtime])
        @@ Remove(tmp)

\* os.rename(tmp, dst): dst is tmp's file from now on, whatever it was
Rename(tmp, dst) == (dst :> files[tmp]) @@ Remove(tmp)

\* commit: overwrite=True (update, set_meta) is os.rename(tmp, dst), which
\* replaces dst and removes tmp in one syscall, and the with block is left:
\* update returns etag, set_meta returns None; overwrite=False (upload) is
\* os.link(tmp, dst), to be followed by os.unlink(tmp)
AwCommit(p) ==
    /\ pc[p] = "aw_commit"
    /\ LET tmp == TmpName(p)
           dst == loc[p].href
       IN  IF arg[p].op = "update"
           THEN /\ files' = Rename(tmp, dst)
                /\ End(p, Ok(dst, loc[p].etag, <<>>))
                /\ Issue("update", dst, loc[p].stat, loc[p].etag)
           ELSE IF arg[p].op = "set_meta"
           THEN /\ files' = Rename(tmp, dst)
                /\ End(p, [Ok(<<>>, <<>>, <<>>) EXCEPT !.value = None])
                /\ issued' = issued
           ELSE IF LinkOutcome(dst) = "ok"
           THEN /\ files' = SetFile(dst, files[tmp].data, files[tmp].mtime)
                /\ pc' = [pc EXCEPT ![p] = "aw_unlink"]
                /\ UNCHANGED <<loc, res, issued>>
           ELSE /\ files' = files
                /\ pc' = [pc EXCEPT ![p] = "aw_rollback"]
                /\ loc' = [loc EXCEPT ![p].err = LinkOutcome(dst)]
                /\ UNCHANGED <<res, issued>>
    /\ UNCHANGED <<scope, fileext, live, clock, arg, ncalls>>

----------------------------------------------------------------------------
(* VdirBase.upload *)

\* upload(item): item.raw is text (Item.__init__ asserts it);
\* href = self._get_href(item.ident), then _upload_impl
CallUpload(p) ==
    \E raw \in Scope.raws, ident \in Scope.hints :
        \E href \in GetHref(ident, fileext) :
            Begin(p, [NoArg EXCEPT !.op = "upload", !.ident = ident, !.raw = raw],
                     [NoLoc EXCEPT !.href = href, !.attempt = 1], "aw_open")

\* (mutant) upload retries whenever the errno is one of the two
UploadRaiseAgain(p, e) ==
    IF e = "EEXIST"
    THEN End(p, AlreadyExists(loc[p].href))
    ELSE IF e \in {"ENAMETOOLONG", "ENOENT"}
    THEN /\ \E href \in GetHref(<<>>, fileext) :
               loc' = [loc EXCEPT ![p] = [NoLoc EXCEPT !.href = href,
                                                       !.attempt = loc[p].attempt + 1,
                                                       !.cause = e,
                                                       !.pre = Found(href)]]
         /\ pc' = [pc EXCEPT ![p] = "aw_open"]
         /\ res' = res
    ELSE End(p, OSError(e))

\* an OSError with errno e leaves _upload_impl: EEXIST becomes AlreadyExists;
\* upload retries ENAMETOOLONG and ENOENT once with a random href (loc.cause
\* keeps the errno retried), and an exception of the retry propagates
UploadRaise(p, e) ==
    IF e = "EEXIST"
    THEN End(p, AlreadyExists(loc[p].href))
    ELSE IF loc[p].attempt = 1 /\ e \in {"ENAMETOOLONG", "ENOENT"}
    THEN /\ \E href \in GetHref(<<>>, fileext) :
               loc' = [loc EXCEPT ![p] = [NoLoc EXCEPT !.href = href,
                                                       !.attempt = loc[p].attempt + 1,
                                                       !.cause = e,
                                                       !.pre = Found(href)]]
         /\ pc' = [pc EXCEPT ![p] = "aw_open"]
         /\ res' = res
    ELSE End(p, OSError(e))

\* with atomic_write(...) as f: f.write(...); return fpath, _get_etag_from_file(f.name)
\* the etag is the stat of the temporary file before the buffer is flushed
UploadBody(p) ==
    /\ pc[p] = "aw_body"
    /\ arg[p].op = "upload"
    /\ LET data == Encode(arg[p].raw)
       IN  \E k \in 0..Len(data) :
            LET w == Written(p, data, k)
            IN  /\ files' = [files EXCEPT ![TmpName(p)] = w]
                /\ loc' = [loc EXCEPT ![p].data = SubSeq(data, k + 1, Len(data)),
                                      ![p].stat = w.mtime,
                                      ![p].etag = FormatEtag(w.mtime)]
    /\ pc' = [pc EXCEPT ![p] = "aw_sync"]
    /\ UNCHANGED <<scope, fileext, issued, live, clock, arg, res, ncalls>>

\* move_atomic after os.link succeeded: os.unlink(tmp); then upload reads
\* self.post_hook (AttributeError when unset, as is self._run_post_hook)
\* and returns href, etag
AwUnlink(p) ==
    /\ pc[p] = "aw_unlink"
    /\ files' = Remove(TmpName(p))
    /\ \E hook \in PostHooks :
          IF hook = "falsy"
          THEN /\ End(p, Ok(loc[p].href, loc[p].etag, <<>>))
               /\ Issue("upload", loc[p].href, loc[p].stat, loc[p].etag)
               /\ Created(loc[p].href)
          ELSE /\ End(p, Raised("AttributeError"))
               /\ UNCHANGED <<issued, live>>
    /\ UNCHANGED <<scope, fileext, clock, arg, ncalls>>

\* the temporary file cannot be created: nothing to roll back
AwOpenFault(p) ==
    /\ pc[p] = "aw_open"
    /\ \E e \in Scope.faults :
          IF arg[p].op = "upload" THEN UploadRaise(p, e) ELSE End(p, OSError(e))
    /\ UNCHANGED <<scope, fileext, issued, live, files, clock, arg, ncalls>>

\* rollback: os.unlink(tmp), then the exception propagates
AwRollback(p) ==
    /\ pc[p] = "aw_rollback"
    /\ files' = Remove(TmpName(p))
    /\ IF arg[p].op = "upload"
       THEN UploadRaise(p, loc[p].err)
       ELSE End(p, Raised(loc[p].err))
    /\ UNCHANGED <<scope, fileext, issued, live, clock, arg, ncalls>>

----------------------------------------------------------------------------
(* VdirBase.update *)

\* update(href, item, etag): item.raw is text (Item.__init__ asserts it), so
\* the TypeError of lines 187-188 is not raised
CallUpdate(p) ==
    \E href \in HrefArgs(Scope.ids, fileext), raw \in Scope.raws,
       etag \in EtagArgs(Scope.instants) :
        Begin(p, [NoArg EXCEPT !.op = "update", !.href = href, !.raw = raw,
                               !.etag = etag],
                 [NoLoc EXCEPT !.href = href], "upd_exists")

\* if not os.path.exists(fpath): raise NotFoundError(item.uid)
UpdateExists(p) ==
    /\ pc[p] = "upd_exists"
    /\ IF Exists(arg[p].href)
       THEN /\ pc' = [pc EXCEPT ![p] = "upd_stat"]
            /\ UNCHANGED <<loc, res>>
       ELSE \E uid \in Uids :
              IF uid = <<>>
              THEN End(p, Raised("AttributeError"))
              ELSE End(p, NotFoundError(uid))
    /\ UNCHANGED <<scope, fileext, issued, live, files, clock, arg, ncalls>>

\* (mutant) update reports a mismatch but goes on to write
UpdateStatLenient(p) ==
    /\ pc[p] = "upd_stat"
    /\ IF ~Exists(arg[p].href)
       THEN End(p, OSError("ENOENT"))
       ELSE /\ pc' = [pc EXCEPT ![p] = "aw_open"]
            /\ UNCHANGED <<loc, res>>
    /\ UNCHANGED <<scope, fileext, issued, live, files, clock, arg, ncalls>>

\* actual_etag = _get_etag_from_file(fpath); raise WrongEtagError(etag, actual_etag)
\* unless they are equal; os.stat raises ENOENT when the file is gone by now
UpdateStat(p) ==
    /\ pc[p] = "upd_stat"
    /\ IF ~Exists(arg[p].href)
       THEN End(p, OSError("ENOENT"))
       ELSE LET actual == GetEtagFromFile(arg[p].href)
            IN  IF arg[p].etag # actual
                THEN End(p, WrongEtagError(arg[p].etag, actual))
                ELSE /\ pc' = [pc EXCEPT ![p] = "aw_open"]
                     /\ UNCHANGED <<loc, res>>
    /\ UNCHANGED <<scope, fileext, issued, live, files, clock, arg, ncalls>>

\* _get_etag_from_fileobject(f): the name is defined nowhere in the module,
\* so evaluating it raises NameError
GetEtagFromFileobject(f) == [raised |-> TRUE, exc |-> "NameError", etag |-> <<>>]

\* with atomic_write(fpath, mode='wb', overwrite=True) as f:
\*     f.write(...); etag = _get_etag_from_fileobject(f)
UpdateBody(p) ==
    /\ pc[p] = "aw_body"
    /\ arg[p].op = "update"
    /\ LET data == Encode(arg[p].raw)
           r == GetEtagFromFileobject(TmpName(p))
       IN  \E k \in 0..Len(data) :
             /\ files' = [files EXCEPT ![TmpName(p)] = Written(p, data, k)]
             /\ IF r.raised
                THEN /\ loc' = [loc EXCEPT ![p].data = SubSeq(data, k + 1, Len(data)),
                                           ![p].err = r.exc]
                     /\ pc' = [pc EXCEPT ![p] = "aw_close"]
                ELSE /\ loc' = [loc EXCEPT ![p].data = SubSeq(data, k + 1, Len(data)),
                                           ![p].etag = r.etag]
                     /\ pc' = [pc EXCEPT ![p] = "aw_sync"]
    /\ UNCHANGED <<scope, fileext, issued, live, clock, arg, res, ncalls>>

----------------------------------------------------------------------------
(* VdirBase.delete *)

CallDelete(p) ==
    \E href \in HrefArgs(Scope.ids, fileext), etag \in EtagArgs(Scope.instants) :
        Begin(p, [NoArg EXCEPT !.op = "delete", !.href = href, !.etag = etag],
                 [NoLoc EXCEPT !.href = href], "del_isfile")

\* if not os.path.isfile(fpath): raise NotFoundError(href); the directory
\* holds regular files only, so isfile and exists agree
DeleteIsfile(p) ==
    /\ pc[p] = "del_isfile"
    /\ IF Exists(arg[p].href)
       THEN /\ pc' = [pc EXCEPT ![p] = "del_stat"]
            /\ UNCHANGED <<loc, res>>
       ELSE End(p, NotFoundError(arg[p].href))
    /\ UNCHANGED <<scope, fileext, issued, live, files, clock, arg, ncalls>>

\* (mutant) delete does not compare the etags
DeleteStatUnchecked(p) ==
    /\ pc[p] = "del_stat"
    /\ IF ~Exists(arg[p].href)
       THEN End(p, OSError("ENOENT"))
       ELSE /\ pc' = [pc EXCEPT ![p] = "del_remove"]
            /\ UNCHANGED <<loc, res>>
    /\ UNCHANGED <<scope, fileext, issued, live, files, clock, arg, ncalls>>

\* actual_etag = _get_etag_from_file(fpath); raise WrongEtagError(etag, actual_etag)
\* unless they are equal
DeleteStat(p) ==
    /\ pc[p] = "del_stat"
    /\ IF ~Exists(arg[p].href)
       THEN End(p, OSError("ENOENT"))
       ELSE LET actual == GetEtagFromFile(arg[p].href)
            IN  IF arg[p].etag # actual
                THEN End(p, WrongEtagError(arg[p].etag, actual))
                ELSE /\ pc' = [pc EXCEPT ![p] = "del_remove"]
                     /\ UNCHANGED <<loc, res>>
    /\ UNCHANGED <<scope, fileext, issued, live, files, clock, arg, ncalls>>

\* os.remove(fpath)
DeleteRemove(p) ==
    /\ pc[p] = "del_remove"
    /\ IF Exists(arg[p].href)
       THEN /\ files' = Remove(arg[p].href)
            /\ End(p, Ok(arg[p].href, <<>>, <<>>))
            /\ Deleted(arg[p].href)
       ELSE /\ files' = files
            /\ End(p, OSError("ENOENT"))
            /\ live' = live
    /\ UNCHANGED <<scope, fileext, issued, clock, arg, ncalls>>

----------------------------------------------------------------------------
(* VdirBase.get *)

CallGet(p) ==
    \E href \in HrefArgs(Scope.ids, fileext) :
        Begin(p, [NoArg EXCEPT !.op = "get", !.href = href],
                 [NoLoc EXCEPT !.href = href], "get_open")

\* with open(fpath, 'rb') as f: f.read(); ENOENT becomes NotFoundError(href)
GetOpen(p) ==
    /\ pc[p] = "get_open"
    /\ IF Exists(arg[p].href)
       THEN /\ loc' = [loc EXCEPT ![p].data = files[arg[p].href].data]
            /\ pc' = [pc EXCEPT ![p] = "get_stat"]
            /\ res' = res
       ELSE End(p, NotFoundError(arg[p].href))
    /\ UNCHANGED <<scope, fileext, issued, live, files, clock, arg, ncalls>>

\* Item(f.read().decode(self.encoding)), _get_etag_from_file(fpath), for the
\* bytes read: the stat is by path, after the read, and its ENOENT becomes
\* NotFoundError(href) too
GetResult(href, data) ==
    IF ~Exists(href) THEN NotFoundError(href)
    ELSE IF Decode(data) = <<"error">> THEN Raised("UnicodeDecodeError")
    ELSE Ok(href, GetEtagFromFile(href), Decode(data))

GetStat(p) ==
    /\ pc[p] = "get_stat"
    /\ End(p, GetResult(arg[p].href, loc[p].data))
    /\ UNCHANGED <<scope, fileext, issued, live, files, clock, arg, ncalls>>

----------------------------------------------------------------------------
(* VdirBase.list *)

\* fname.endswith(self.fileext)
EndsWith(name, ext) ==
    /\ Len(name) >= Len(ext)
    /\ SubSeq(name, Len(name) - Len(ext) + 1, Len(name)) = ext

\* list(): the generator is run to its end by the caller that made it
CallList(p) ==
    /\ pc[p] = "idle"
    /\ Begin(p, [NoArg EXCEPT !.op = "list"], NoLoc, "list_dir")

\* os.listdir(self.path): the names the directory holds now
ListDir(p) ==
    /\ pc[p] = "list_dir"
    /\ loc' = [loc EXCEPT ![p].names = DOMAIN files]
    /\ pc' = [pc EXCEPT ![p] = "list_next"]
    /\ UNCHANGED <<scope, fileext, issued, live, files, clock, arg, res, ncalls>>

\* the next fname of the loop, in whatever order listdir gave the names:
\* os.path.isfile(fpath) and fname.endswith(self.fileext); the generator is
\* exhausted after the last name
ListNext(p) ==
    /\ pc[p] = "list_next"
    /\ IF loc[p].names = {}
       THEN End(p, [Ok(<<>>, <<>>, <<>>) EXCEPT !.pairs = loc[p].pairs])
       ELSE \E fname \in loc[p].names :
              /\ loc' = [loc EXCEPT ![p].names = loc[p].names \ {fname},
                                    ![p].href = fname]
              /\ pc' = [pc EXCEPT ![p] =
                           IF Exists(fname) /\ EndsWith(fname, fileext)
                           THEN "list_stat" ELSE "list_next"]
              /\ res' = res
    /\ UNCHANGED <<scope, fileext, issued, live, files, clock, arg, ncalls>>

\* yield fname, _get_etag_from_file(fpath); os.stat raises ENOENT when the
\* file is gone by now
ListStat(p) ==
    /\ pc[p] = "list_stat"
    /\ IF Exists(loc[p].href)
       THEN /\ loc' = [loc EXCEPT ![p].pairs =
                           loc[p].pairs \cup {<<loc[p].href, GetEtagFromFile(loc[p].href)>>}]
            /\ pc' = [pc EXCEPT ![p] = "list_next"]
            /\ res' = res
       ELSE End(p, OSError("ENOENT"))
    /\ UNCHANGED <<scope, fileext, issued, live, files, clock, arg, ncalls>>

----------------------------------------------------------------------------
(* Metadata *)

\* value or u''
OrEmpty(value) == IF value = None THEN <<>> ELSE value

\* text or None
OrNone(text) == IF text = <<>> THEN None ELSE text

RECURSIVE LStrip(_)
LStrip(text) == IF text # <<>> /\ Head(text) = " " THEN LStrip(Tail(text)) ELSE text

RECURSIVE RStrip(_)
RStrip(text) == IF text # <<>> /\ text[Len(text)] = " "
                THEN RStrip(SubSeq(text, 1, Len(text) - 1)) ELSE text

\* text.strip()
Strip(text) == RStrip(LStrip(text))

\* _normalize_meta_value(value): to_native(value or u'').strip(); no
\* statement of the module calls it
NormalizeMetaValue(value) == Strip(OrEmpty(value))

\* set_meta, line 217: value = value or u''
SetMetaValue(value) == OrEmpty(value)

\* set_meta(key, value): value is None or text, so the assert passes
CallSetMeta(p) ==
    \E key \in Scope.keys, value \in Scope.values :
        Begin(p, [NoArg EXCEPT !.op = "set_meta", !.key = key, !.value = value],
                 [NoLoc EXCEPT !.href = key], "aw_open")

\* with atomic_write(fpath, mode='wb', overwrite=True) as f:
\*     f.write(value.encode(self.encoding))
SetMetaBody(p) ==
    /\ pc[p] = "aw_body"
    /\ arg[p].op = "set_meta"
    /\ LET data == Encode(SetMetaValue(arg[p].value))
       IN  \E k \in 0..Len(data) :
             /\ files' = [files EXCEPT ![TmpName(p)] = Written(p, data, k)]
             /\ loc' = [loc EXCEPT ![p].data = SubSeq(data, k + 1, Len(data))]
    /\ pc' = [pc EXCEPT ![p] = "aw_sync"]
    /\ UNCHANGED <<scope, fileext, issued, live, clock, arg, res, ncalls>>

CallGetMeta(p) ==
    \E key \in Scope.keys :
        Begin(p, [NoArg EXCEPT !.op = "get_meta", !.key = key],
                 [NoLoc EXCEPT !.href = key], "gm_open")

\* what get_meta(key) returns: f.read().decode(self.encoding) or None, and
\* None when open raises ENOENT
GetMetaResult(key) ==
    IF ~Exists(key) THEN [Ok(<<>>, <<>>, <<>>) EXCEPT !.value = None]
    ELSE IF Decode(files[key].data) = <<"error">> THEN Raised("UnicodeDecodeError")
    ELSE [Ok(<<>>, <<>>, <<>>) EXCEPT !.value = OrNone(Decode(files[key].data))]

\* with open(fpath, 'rb') as f: return f.read().decode(self.encoding) or None
GetMetaOpen(p) ==
    /\ pc[p] = "gm_open"
    /\ End(p, GetMetaResult(arg[p].key))
    /\ UNCHANGED <<scope, fileext, issued, live, files, clock, arg, ncalls>>

----------------------------------------------------------------------------

Next ==
    \/ Tick
    \/ \E p \in Procs :
        \/ CallUpload(p) \/ CallUpdate(p) \/ CallDelete(p) \/ CallGet(p)
        \/ AwOpen(p) \/ AwOpenFault(p) \/ UploadBody(p) \/ UpdateBody(p)
        \/ AwSync(p) \/ AwClose(p) \/ AwCommit(p) \/ AwUnlink(p) \/ AwRollback(p)
        \/ UpdateExists(p) \/ UpdateStat(p)
        \/ DeleteIsfile(p) \/ DeleteStat(p) \/ DeleteRemove(p)
        \/ GetOpen(p) \/ GetStat(p)
        \/ CallList(p) \/ ListDir(p) \/ ListNext(p) \/ ListStat(p)
        \/ CallSetMeta(p) \/ SetMetaBody(p)
        \/ CallGetMeta(p) \/ GetMetaOpen(p)
        \/ Return(p)

Spec == Init /\ [][Next]_vars

SpecSeq == InitSeq /\ [][Next]_vars

SpecLife == InitLife /\ [][Next]_vars

SpecMeta == InitMeta /\ [][Next]_vars

SpecBrief == InitBrief /\ [][Next]_vars

----------------------------------------------------------------------------
(* Properties *)

\* the entry's etag differs from the etag the call expects
Stale(p, entry) == entry.present /\ arg[p].etag # FormatEtag(entry.mtime)

\* C1: update(href, item, e) and delete(href, e) on an existing href whose
\* on-disk etag differs from e end in WrongEtagError(e, actual) and leave the
\* entry's content and modification time as they were
C1_OptimisticRejection ==
    \A p \in Procs :
        (pc[p] = "ret" /\ arg[p].op \in {"update", "delete"} /\ Stale(p, loc[p].pre))
            => /\ res[p] = WrongEtagError(arg[p].etag, FormatEtag(loc[p].pre.mtime))
               /\ Entry(arg[p].href) = loc[p].pre

C1_Witness ==
    \E p \in Procs :
        /\ pc[p] = "ret" /\ arg[p].op = "update" /\ Stale(p, loc[p].pre)
        /\ res[p].exc = "WrongEtagError"

\* a step of caller p
Steps(p) == pc'[p] # pc[p]

LostRace(p, q) ==
    /\ p # q
    /\ arg[p].op = "upload" /\ pc[p] = "ret" /\ loc[p].err = "EEXIST"
    /\ arg[q].op = "upload" /\ pc[q] = "aw_unlink" /\ loc[q].href = loc[p].href

\* C3: of concurrent creates racing on one safe hint, the one that loses the
\* race fails with AlreadyExists (or lands on another, random href), and the
\* winner's content stays in place
C3_AtomicCreate ==
    \A p, q \in Procs :
        LostRace(p, q)
            => /\ \/ res[p].exc = "AlreadyExists"
                  \/ res[p].status = "ok" /\ res[p].href # loc[q].href
               /\ Exists(loc[q].href)
               /\ files[loc[q].href].data = Encode(arg[q].raw)

\* a temporary file of some caller
IsTmp(name) == \E p \in Procs : name = TmpName(p)

\* the byte strings of whole items
Complete == {Encode(raw) : raw \in Raws}

\* C4: every file of the directory other than a temporary file holds the
\* whole content of some item, and so do the bytes a get has read and the
\* item it returns; content in progress is in temporary files only
C4_NoPartialContent ==
    /\ \A name \in DOMAIN files : ~IsTmp(name) => files[name].data \in Complete
    /\ \A p \in Procs :
          /\ pc[p] = "get_stat" => loc[p].data \in Complete
          /\ (pc[p] = "ret" /\ arg[p].op = "get")
                => \/ res[p].exc = "NotFoundError"
                   \/ res[p].status = "ok" /\ res[p].raw \in Raws

\* a reader got a whole item while a writer's temporary file holds the first
\* byte only of its content
C4_Witness ==
    \E p, q \in Procs :
        /\ p # q
        /\ pc[p] = "aw_sync" /\ Len(files[TmpName(p)].data) = 1 /\ loc[p].data # <<>>
        /\ pc[q] = "ret" /\ arg[q].op = "get" /\ res[q].status = "ok"

\* what get(href) returns in the current state, run without interruption
GetNow(href) == GetResult(href, Entry(href).data)

\* C5: when create has returned (href, etag), get(href) returns the item's raw
\* content and that same etag
C5_RoundTrip ==
    \A p \in Procs :
        (pc[p] = "ret" /\ arg[p].op = "upload" /\ res[p].status = "ok")
            => GetNow(res[p].href) = Ok(res[p].href, res[p].etag, arg[p].raw)

\* the call's expected etag is the etag of the entry it found
Current(p) == loc[p].pre.present /\ arg[p].etag = FormatEtag(loc[p].pre.mtime)

\* the filesystem failed the call with an error of its own
Faulted(p) == res[p].exc = "OSError"

\* C6: an update with the entry's current etag succeeds and returns the etag
\* the entry then has; a delete with the current etag succeeds and get then
\* fails with NotFoundError; an update or delete with a stale etag fails with
\* WrongEtagError (calls the filesystem fails aside)
C6_EtagChain ==
    \A p \in Procs :
        (pc[p] = "ret" /\ ~Faulted(p)) =>
            /\ (arg[p].op = "update" /\ Current(p))
                  => /\ res[p].status = "ok"
                     /\ Exists(arg[p].href)
                     /\ res[p].etag = GetEtagFromFile(arg[p].href)
            /\ (arg[p].op = "delete" /\ Current(p))
                  => /\ res[p].status = "ok"
                     /\ GetNow(arg[p].href) = NotFoundError(arg[p].href)
            /\ (arg[p].op \in {"update", "delete"} /\ Stale(p, loc[p].pre))
                  => res[p].exc = "WrongEtagError"

\* C7: two etags returned for one href by create or update differ when the
\* modification times they were taken from differ
C7_EtagFreshness ==
    \A i, j \in issued :
        (i.href = j.href /\ i.stat # j.stat) => i.etag # j.etag

\* C8: get, update and delete of a href that has no file fail with
\* NotFoundError(href), and the href still has no file afterwards
C8_NotFound ==
    \A p \in Procs :
        (pc[p] = "ret" /\ arg[p].op \in {"get", "update", "delete"}
                       /\ ~loc[p].pre.present)
            => /\ res[p] = NotFoundError(arg[p].href)
               /\ ~Exists(arg[p].href)

\* C9: a create whose href exists already fails with AlreadyExists carrying
\* that href, and the entry is as it was (calls the filesystem fails aside)
C9_CreateNeverOverwrites ==
    \A p \in Procs :
        (pc[p] = "ret" /\ arg[p].op = "upload" /\ loc[p].pre.present /\ ~Faulted(p))
            => /\ res[p].exc = "AlreadyExists"
               /\ res[p].href = loc[p].href
               /\ Entry(loc[p].href) = loc[p].pre

\* the href of create's first write attempt is longer than the filesystem allows
FirstTooLong(p) ==
    /\ arg[p].ident # <<>> /\ HrefSafe(arg[p].ident)
    /\ Len(arg[p].ident \o fileext) > NameMax

C11_NoOtherTranslation ==
    \A p \in Procs :
        arg[p].op = "upload" =>
            /\ loc[p].attempt = 2 => loc[p].cause = "ENAMETOOLONG"
            /\ (pc[p] = "ret" /\ Faulted(p))
                  => /\ loc[p].attempt = 1 \/ loc[p].cause = "ENAMETOOLONG"
                     /\ Entry(loc[p].href) = loc[p].pre

\* the hint is non-empty and has safe characters only
SafeIdent(ident) ==
    /\ ident # <<>>
    /\ \A i \in 1..Len(ident) :
          \/ ident[i] \in {"_", ".", "+", "-"}
          \/ ident[i] \in Lower \cup Upper \cup Digit

\* a 32-character random hexadecimal identifier + extension
RandomHrefs == {id \o fileext : id \in RandomIds}

\* C12 as stated: the href a create returns is hint + extension if and only
\* if the hint is non-empty and safe, and otherwise a random identifier +
\* extension other than hint + extension (creates retried after ENOENT aside)
C12_HrefDerivation ==
    \A p \in Procs :
        (pc[p] = "ret" /\ arg[p].op = "upload" /\ res[p].status = "ok"
                       /\ loc[p].cause # "ENOENT")
            => /\ res[p].href = arg[p].ident \o fileext <=> SafeIdent(arg[p].ident)
               /\ ~SafeIdent(arg[p].ident)
                     => /\ res[p].href \in RandomHrefs
                        /\ res[p].href # arg[p].ident \o fileext

\* C12 amended: the href of a create's first write attempt is hint +
\* extension if and only if the hint is non-empty and safe, and otherwise a
\* random identifier + extension other than hint + extension; the create
\* returns the href of its first attempt, or a random identifier + extension
\* from a second attempt made after the first was rejected (ENAMETOOLONG,
\* ENOENT), whatever the hint
C12_FirstHrefDerivation ==
    \A p \in Procs :
        arg[p].op = "upload" =>
            /\ loc[p].attempt = 1 =>
                  /\ loc[p].href = arg[p].ident \o fileext <=> SafeIdent(arg[p].ident)
                  /\ ~SafeIdent(arg[p].ident)
                        => /\ loc[p].href \in RandomHrefs
                           /\ loc[p].href # arg[p].ident \o fileext
            /\ loc[p].attempt = 2 =>
                  /\ loc[p].cause \in {"ENAMETOOLONG", "ENOENT"}
                  /\ loc[p].href \in RandomHrefs
            /\ (pc[p] = "ret" /\ res[p].status = "ok") => res[p].href = loc[p].href

\* a create with an unsafe hint returned a random href from its first attempt
C12_Witness ==
    \E p \in Procs :
        /\ pc[p] = "ret" /\ arg[p].op = "upload" /\ res[p].status = "ok"
        /\ arg[p].ident = <<"a", "/">> /\ loc[p].attempt = 1
        /\ res[p].href \in RandomHrefs

\* C13 as stated: two creates that succeeded, whatever was deleted in
\* between, returned different hrefs
C13_HrefsNeverReused ==
    \A i, j \in issued :
        (i.op = "upload" /\ j.op = "upload" /\ i.call # j.call) => i.href # j.href

\* C13 amended: a create does not return a href that an earlier create
\* returned and no delete has removed since; once the item is deleted, a
\* create with the same hint returns the href again
C13_NotReusedWhileLive ==
    [][\A p \in Procs :
          (pc[p] = "aw_unlink" /\ pc'[p] = "ret" /\ res'[p].status = "ok")
              => res'[p].href \notin live]_vars

\* a create returned the href that an earlier create had returned and a
\* delete had removed
C13_Witness ==
    \E i, j \in issued :
        /\ i.op = "upload" /\ j.op = "upload" /\ i.call < j.call
        /\ i.href = j.href /\ j.href \in live

\* caller p's set_meta renames its temporary file onto the key and returns
SetMetaCommits(p) ==
    pc[p] = "aw_commit" /\ arg[p].op = "set_meta" /\ pc'[p] = "ret"

\* get_meta returns "no value"
NoValue == [Ok(<<>>, <<>>, <<>>) EXCEPT !.value = None]

\* C14: when set_meta(k, v) has returned, for v not empty after stripping,
\* the file of k holds v stripped of surrounding whitespace and get_meta(k)
\* returns that
C14_MetaRoundTrip ==
    [][\A p \in Procs :
          (SetMetaCommits(p) /\ NormalizeMetaValue(arg[p].value) # <<>>)
              => /\ files'[arg[p].key].data = Encode(NormalizeMetaValue(arg[p].value))
                 /\ GetMetaResult(arg[p].key)'
                       = [NoValue EXCEPT !.value = NormalizeMetaValue(arg[p].value)]]_vars

\* C15: get_meta(k) returns None without raising while k has no file, and
\* when set_meta(k, v) has returned for v that is None, empty or blank
C15_AbsentIsAValue ==
    [][/\ \A k \in MetaKeys : ~Exists(k) => GetMetaResult(k) = NoValue
       /\ \A p \in Procs :
             (SetMetaCommits(p) /\ NormalizeMetaValue(arg[p].value) = <<>>)
                 => GetMetaResult(arg[p].key)' = NoValue]_vars

\* what get_meta(k) returns for the file set_meta(k, value) writes
Stored(value) == [NoValue EXCEPT !.value = OrNone(SetMetaValue(value))]

\* the byte strings of whole metadata values
WholeValues == {Encode(SetMetaValue(v)) : v \in MetaValues}

\* C16: a set_meta that the filesystem does not fail returns normally,
\* whatever the key held and whatever other callers do; the file of a key
\* changes only when a set_meta renames onto it, get_meta then returns that
\* call's whole value, and at all times the file holds one whole value
C16_LastWriterWins ==
    [][/\ \A p \in Procs :
             /\ (arg[p].op = "set_meta" /\ pc'[p] = "ret" /\ ~Faulted(p)')
                    => res'[p] = NoValue
             /\ SetMetaCommits(p) => GetMetaResult(arg[p].key)' = Stored(arg[p].value)
       /\ \A k \in MetaKeys :
             /\ Entry(k)' # Entry(k) => \E p \in Procs : SetMetaCommits(p) /\ arg[p].key = k
             /\ Exists(k)' => files'[k].data \in WholeValues]_vars

\* one caller's set_meta has returned and the key holds its value, while
\* another caller's set_meta of another value is about to rename
C16_Witness ==
    \E p, q \in Procs :
        /\ pc[p] = "ret" /\ arg[p].op = "set_meta" /\ res[p] = NoValue
        /\ pc[q] = "aw_commit" /\ arg[q].op = "set_meta" /\ arg[q].key = arg[p].key
        /\ Stored(arg[q].value) # Stored(arg[p].value)
        /\ GetMetaResult(arg[p].key) = Stored(arg[p].value)

\* no call is in flight
Quiescent == \A p \in Procs : pc[p] \in {"idle", "ret"}

\* the names of the directory that list() takes for items
ItemNames == {name \in DOMAIN files : EndsWith(name, fileext)}

\* C17: when no call is in flight, every item file of the directory has a
\* href that a create returned and no delete has removed since
C17_OnlyCreateCreates == Quiescent => ItemNames \subseteq live

\* what list() yields in the current state, run without interruption
ListNow == {<<name, GetEtagFromFile(name)>> : name \in ItemNames}

\* C18: a list() that one caller runs alone yields one pair for every href
\* that a create returned and no delete has removed since, and no other
\* pair, each with the etag that get(href) returns
C18_ListAgrees ==
    \A p \in Procs :
        (pc[p] = "ret" /\ arg[p].op = "list")
            => /\ res[p].status = "ok"
               /\ {pair[1] : pair \in res[p].pairs} = live
               /\ Cardinality(res[p].pairs) = Cardinality(live)
               /\ \A pair \in res[p].pairs :
                     /\ GetNow(pair[1]).status = "ok"
                     /\ GetNow(pair[1]).etag = pair[2]

\* the extension is not empty and no metadata key ends with it
Disjoint == fileext # <<>> /\ \A k \in MetaKeys : ~EndsWith(k, fileext)

\* C19: a step of set_meta changes neither what list() yields nor any item
\* file, and a step of create, update or delete changes no key's file, hence
\* not what get_meta returns for it
C19_ItemsAndMetaApart ==
    [][(Disjoint /\ files' # files) =>
          \A p \in Procs :
              /\ (Steps(p) /\ arg[p].op = "set_meta")
                    => /\ ListNow' = ListNow
                       /\ \A name \in ItemNames : Entry(name)' = Entry(name)
              /\ (Steps(p) /\ arg[p].op \in {"upload", "update", "delete"})
                    => \A k \in MetaKeys :
                          /\ Entry(k)' = Entry(k)
                          /\ GetMetaResult(k)' = GetMetaResult(k)]_vars

\* a set_meta and a delete have returned, by different callers, and both an
\* item and a value are there
C19_Witness ==
    \E p, q \in Procs :
        /\ pc[p] = "ret" /\ arg[p].op = "set_meta" /\ res[p].status = "ok"
        /\ pc[q] = "ret" /\ arg[q].op = "upload" /\ res[q].status = "ok"
        /\ ListNow # {} /\ GetMetaResult(arg[p].key) = Stored(arg[p].value)

====
